---- MODULE Spec2Model ----
(***************************************************************************)
(* Model of DeepNet (src/deep_network.py): construction, feedforward,      *)
(* get_cost, backpropagate, update_params, predict and the SGD loop.       *)
(*                                                                         *)
(* Arrays are abstracted to their numpy shapes (tuples of dimensions); the *)
(* numpy operations are modelled by their shape rules (np.dot, elementwise *)
(* broadcasting, .T, reshape, len), including the cases where they raise.  *)
(* The value held by a parameter is abstracted to the number of updates    *)
(* that were applied to it, the data of a mini-batch to its identity       *)
(* (epoch, index) and a cost to "low" or "high".                           *)
(*                                                                         *)
(* Spec     : the SGD loop over every training set size, batch size,       *)
(*            number of epochs and held-out set, on shallow networks.      *)
(* SpecDeep : the SGD loop over every architecture and label layout, on    *)
(*            training sets of one mini-batch.                             *)
(* SpecLong : the SGD loop on training sets of more than 200 mini-batches. *)
(* SpecCtor : the constructor on arbitrary lists of integers.              *)
(***************************************************************************)
(* The definitions named ..._axis0, ...DropLast, ...Extra,                *)
(* ...OneBased, ...Short, ...Eager and ...Training are faulty variants of  *)
(* the definition that follows them; the properties must tell them apart   *)
(* from the code.                                                          *)
(***************************************************************************)
EXTENDS Integers, Sequences, FiniteSets, TLC

\* ---------------------------------------------------------------- bounds
MaxLayers == 3       \* deep runs: architectures of 1..MaxLayers layers
LoopLayers == 2      \* loop runs: architectures of 1..LoopLayers layers
MaxUnits == 2        \* every dimension is drawn from 1..MaxUnits
MaxM == 3            \* training set sizes 1..MaxM
MaxBatch == 2        \* mini_batch_size 1..MaxBatch
MaxEpochs == 2       \* num_epochs 1..MaxEpochs
MaxCtorLen == 3      \* constructor inputs: architectures of length 0..MaxCtorLen
LongM == 201         \* training set size of the long runs (more than 2 * 100 batches)
TestM == 3           \* size of the held-out set

\* ------------------------------------------------------- program constants
ReportEvery == 100   \* src/deep_network.py:160

\* ------------------------------------------------------------ numpy shapes
\* The outcome "the operation raised" of a shape computation.
RAISE == <<-1>>

RECURSIVE Prod(_)
Prod(s) == IF s = <<>> THEN 1 ELSE Head(s) * Prod(Tail(s))

\* ndarray.T: the axes reversed.
T(s) == IF s = RAISE THEN RAISE ELSE [i \in 1..Len(s) |-> s[Len(s) + 1 - i]]

\* len(ndarray): the first dimension.
NpLen(s) == s[1]

\* np.dot of two 2-D arrays.
Dot(a, b) ==
    IF a = RAISE \/ b = RAISE THEN RAISE
    ELSE IF Len(a) = 2 /\ Len(b) = 2 /\ a[2] = b[1] THEN <<a[1], b[2]>>
    ELSE RAISE

\* Dimension i (counted from the right, 1 = last) of s, 1 when s is shorter.
DimR(s, i) == IF i <= Len(s) THEN s[Len(s) + 1 - i] ELSE 1

Max2(x, y) == IF x >= y THEN x ELSE y

\* Elementwise binary operation (+, -, *, /, ==) under numpy broadcasting.
Bcast(a, b) ==
    IF a = RAISE \/ b = RAISE THEN RAISE
    ELSE LET n == Max2(Len(a), Len(b))
             ok == \A i \in 1..n :
                      \/ DimR(a, i) = DimR(b, i)
                      \/ DimR(a, i) = 1
                      \/ DimR(b, i) = 1
         IN IF ok
            THEN [j \in 1..n |->
                     LET i == n + 1 - j
                     IN IF DimR(a, i) = 1 THEN DimR(b, i) ELSE DimR(a, i)]
            ELSE RAISE

\* ndarray.reshape(target).
Reshape(s, target) ==
    IF s = RAISE \/ target = RAISE THEN RAISE
    ELSE IF Prod(s) = Prod(target) THEN target ELSE RAISE

\* np.sum(x, axis=1, keepdims=True) of a 2-D array.
SumAxis1(s) == IF s = RAISE \/ Len(s) < 2 THEN RAISE ELSE <<s[1], 1>>

\* np.sum(x, axis=0, keepdims=True) of a 2-D array.
SumAxis0(s) == IF s = RAISE \/ Len(s) < 2 THEN RAISE ELSE <<1, s[2]>>

\* np.argmax(x, axis=1): axis 1 removed; raises when x has fewer than 2 axes.
ArgmaxAxis1(s) ==
    IF s = RAISE \/ Len(s) < 2 THEN RAISE
    ELSE [i \in 1..(Len(s) - 1) |-> IF i = 1 THEN s[1] ELSE s[i + 1]]

\* ------------------------------------------------------------ construction
\* architecture[1] is the input dimension (a[0] in the source).
ValidArchitecture(a) == Len(a) >= 2 /\ \A i \in 1..Len(a) : a[i] > 0

\* DeepNet.__init__: the loop `for l in range(1, self.L)`; np.random.randn and
\* np.zeros raise ValueError on a negative dimension and on nothing else.
CtorRaises(a) == Len(a) >= 2 /\ \E i \in 1..Len(a) : a[i] < 0

InitParams(a) ==
    [l \in 1..(IF Len(a) >= 2 THEN Len(a) - 1 ELSE 0) |->
        [W |-> <<a[l + 1], a[l]>>, b |-> <<a[l + 1], 1>>, Wver |-> 0, bver |-> 0]]

\* ------------------------------------------------------------ feedforward
\* DeepNet.activate: Z = np.dot(W, A_prev) + b; A = activ_fn(Z). The cache holds
\* the arrays themselves: besides their shapes, `batch` says which data A_prev
\* was computed from and Wver, bver which values of W and b were read.
activate(A_prev, p, activ_fn, batch) ==
    LET Z == Bcast(Dot(p.W, A_prev), p.b)
    IN [A |-> Z,
        cache |-> [A_prev |-> A_prev, W |-> p.W, b |-> p.b, Z |-> Z,
                   d_func |-> IF activ_fn = "relu" THEN "d_relu" ELSE "d_sigmoid",
                   batch |-> batch, Wver |-> p.Wver, bver |-> p.bver]]

\* The activation function of layer l of L: relu up to L-1, sigmoid for L.
ActivFn(l, L) == IF l < L THEN "relu" ELSE "sigmoid"

\* The shape of the activation of layer l (layer 0 is the input).
RECURSIVE FwdA(_, _, _)
FwdA(params, A0, l) ==
    IF l = 0 THEN A0
    ELSE activate(FwdA(params, A0, l - 1), params[l], ActivFn(l, Len(params)),
                  <<>>).A

\* DeepNet.feedforward on the data `batch` of shape A0: [ok, AL, caches];
\* caches[l] is the cache of layer l. With no layer, parameters['W0'] raises.
feedforward(params, A0, batch) ==
    LET n == Len(params)
    IN IF n = 0 \/ FwdA(params, A0, n) = RAISE
       THEN [ok |-> FALSE, AL |-> RAISE, caches |-> <<>>]
       ELSE [ok |-> TRUE,
             AL |-> FwdA(params, A0, n),
             caches |-> [l \in 1..n |->
                 activate(FwdA(params, A0, l - 1), params[l], ActivFn(l, n),
                          batch).cache]]

\* ------------------------------------------------------------------ labels
\* The shape of np.asarray(y[k:k+size]) for the three label conventions:
\* "onehot": each label a vector of C entries; "column": each label a (C, 1)
\* column as built by one_hot; "scalar": each label a class index.
LabelShape(layout, C, size) ==
    CASE layout = "onehot" -> <<size, C>>
      [] layout = "column" -> <<size, C, 1>>
      [] OTHER -> <<size>>

\* ---------------------------------------------------------------- get_cost
\* DeepNet.get_cost: m = len(Y); the sum is over Y * log(YHat) + (1-Y) * log(1-YHat).
get_cost(YHat, Y) ==
    [ok |-> Bcast(Y, YHat) # RAISE, m |-> NpLen(Y)]

\* ----------------------------------------------------------- backpropagate
\* Variant: db summed over axis 0 instead of axis 1.
get_prevlayer_gradient_axis0(dA, cache) ==
    LET dZ == Bcast(dA, cache.Z)
    IN [dA |-> Dot(T(cache.W), dZ),
        dW |-> Dot(dZ, T(cache.A_prev)),
        db |-> SumAxis0(dZ)]

\* DeepNet.get_prevlayer_gradient.
get_prevlayer_gradient(dA, cache) ==
    LET dZ == Bcast(dA, cache.Z)
    IN [dA |-> Dot(T(cache.W), dZ),
        dW |-> Dot(dZ, T(cache.A_prev)),
        db |-> SumAxis1(dZ)]

GradRaised(g) == g.dA = RAISE \/ g.dW = RAISE \/ g.db = RAISE

\* The key of grads whose dA entry the loop passes to get_prevlayer_gradient
\* when it computes the gradients stored under key k < L.
DASource(k, L) == L

\* The gradients stored under key k (layer k) of L = len(caches).
RECURSIVE BackLayer(_, _, _)
BackLayer(dAL, caches, k) ==
    IF k = Len(caches)
    THEN get_prevlayer_gradient(dAL, caches[k])
    ELSE get_prevlayer_gradient(
             BackLayer(dAL, caches, DASource(k, Len(caches))).dA, caches[k])

\* DeepNet.backpropagate: [ok, grads]; grads[k] holds dA{k}, dW{k}, db{k},
\* src (the key whose dA was its input, L+1 for the loss gradient dAL) and the
\* identity of what the cache it was computed from held.
backpropagate(AL, Y, caches) ==
    LET L == Len(caches)
        dAL == Bcast(Reshape(Y, AL), AL)
        g(k) == BackLayer(dAL, caches, k)
    IN IF dAL = RAISE \/ \E k \in 1..L : GradRaised(g(k))
       THEN [ok |-> FALSE, grads |-> <<>>]
       ELSE [ok |-> TRUE,
             grads |-> [k \in 1..L |->
                 [dA |-> g(k).dA, dW |-> g(k).dW, db |-> g(k).db,
                  src |-> IF k = L THEN L + 1 ELSE DASource(k, L),
                  batch |-> caches[k].batch,
                  Wver |-> caches[k].Wver, bver |-> caches[k].bver]]]

\* -------------------------------------------------------------- mini-batches
Min2(x, y) == IF x <= y THEN x ELSE y

\* The start offsets range(0, m, mini_batch_size).
\* Variant: a last mini-batch that is not full is dropped.
BatchStartsDropLast(m, bs) == {k \in 0..(m - 1) : k % bs = 0 /\ k + bs <= m}

BatchStarts(m, bs) == {k \in 0..(m - 1) : k % bs = 0}

\* [X[k:k+bs], y[k:k+bs]] for k in range(0, m, bs): the examples lo..hi-1.
MiniBatches(m, bs) ==
    [i \in 1..Cardinality(BatchStarts(m, bs)) |->
        [lo |-> (i - 1) * bs, hi |-> Min2((i - 1) * bs + bs, m)]]

\* --------------------------------------------------------------------- state
VARIABLES
    architecture,     \* the constructor's argument
    parameters,       \* self.parameters: layer l |-> W{l}, b{l}
    X,                \* shape of the training features (m, feature dimension)
    ylayout, ydim,    \* label convention and label length of the training set
    num_epochs, mini_batch_size,
    test_data,        \* the held-out set, present or not
    pc,               \* position of the program
    epoch,            \* the loop variable of `for epoch in range(num_epochs)`
    mini_batches,     \* the mini-batches of the current epoch
    batch_num,        \* the loop variable of the enumerate over mini_batches
    AL, caches,       \* results of the last feedforward
    cost,             \* result of the last get_cost: its value and its divisor m
    grads,            \* result of the last backpropagate
    ul,               \* the loop variable (plus 1) of update_params
    costs,            \* the list `costs`
    updates,          \* number of update_params calls that returned
    raisedBy          \* the call that raised, "none" while nothing did

vars == <<architecture, parameters, X, ylayout, ydim, num_epochs, mini_batch_size,
          test_data, pc, epoch, mini_batches, batch_num, AL, caches, cost, grads,
          ul, costs, updates, raisedBy>>

config == <<architecture, X, ylayout, ydim, num_epochs, mini_batch_size, test_data>>
locals == <<AL, caches, cost, grads, ul>>

Layouts == {"onehot", "column", "scalar"}

\* Values a cost can take, as far as a convergence test could tell them
\* apart: below or above whatever threshold it would use.
CostValues == {"low", "high"}

NoTestData == [present |-> FALSE, xdim |-> 1, layout |-> "scalar", ydim |-> 1]

\* The held-out sets: none, or one with the feature dimension d and the label
\* length c of the training set, its labels in one of the layouts.
TestSets(d, c, layouts) ==
    {NoTestData} \cup
    [present : {TRUE}, xdim : {d}, layout : layouts, ydim : {c}]

Architectures(minLayers, maxLayers) ==
    UNION {[1..n -> 1..MaxUnits] : n \in (minLayers + 1)..(maxLayers + 1)}

L == Len(parameters)
m == X[1]

\* The state when SGD is called on a freshly constructed network.
InitWith(archs, sizes, layouts, tests, epochs, batchSizes) ==
    /\ architecture \in archs
    /\ parameters = InitParams(architecture)
    /\ X \in {<<n, d>> : n \in sizes, d \in 1..MaxUnits}
    /\ ylayout \in layouts
    /\ ydim \in 1..MaxUnits
    /\ num_epochs \in epochs
    /\ mini_batch_size \in batchSizes
    /\ test_data \in TestSets(X[2], ydim, tests)
    /\ pc = "epoch"
    /\ epoch = 0
    /\ mini_batches = <<>>
    /\ batch_num = 0
    /\ AL = RAISE
    /\ caches = <<>>
    /\ cost = [value |-> "low", m |-> 0]
    /\ grads = <<>>
    /\ ul = 0
    /\ costs = <<>>
    /\ updates = 0
    /\ raisedBy = "none"

\* Loop runs: every training set size, batch size, number of epochs and
\* held-out set, on networks of few layers; the labels are the columns of
\* one_hot or class indices.
Init == InitWith(Architectures(1, LoopLayers), 1..MaxM, {"column", "scalar"}, Layouts,
                 1..MaxEpochs, 1..MaxBatch)

\* ----------------------------------------------------------------- the SGD loop
\* Variant: one epoch too many.
EpochRangeExtra(n) == 0..n

\* range(num_epochs)
EpochRange(n) == 0..(n - 1)

\* Variant: every 100th mini-batch counted from 1.
ShouldRecordOneBased(b) == (b + 1) % ReportEvery = 0

\* Line 160: batch_num % 100 == 0.
ShouldRecord(b) == b % ReportEvery = 0

CurBatch == mini_batches[batch_num + 1]
CurSize == CurBatch.hi - CurBatch.lo

\* Lines 135-144: the next epoch starts: shuffle, then slice into mini-batches.
StartEpoch ==
    /\ pc = "epoch"
    /\ epoch \in EpochRange(num_epochs)
    /\ mini_batches' = MiniBatches(m, mini_batch_size)
    /\ batch_num' = 0
    /\ pc' = IF mini_batches' # <<>> THEN "forward"
             ELSE IF test_data.present THEN "predict" ELSE "epoch"
    /\ epoch' = IF mini_batches' = <<>> /\ ~test_data.present
                THEN epoch + 1 ELSE epoch
    /\ UNCHANGED <<config, parameters, locals, costs, updates, raisedBy>>

\* Lines 147-151: X_mini.T, y_mini and feedforward.
Forward ==
    /\ pc = "forward"
    /\ LET r == feedforward(parameters, T(<<CurSize, X[2]>>), <<epoch, batch_num>>)
       IN IF r.ok
          THEN /\ AL' = r.AL
               /\ caches' = r.caches
               /\ pc' = "cost"
               /\ UNCHANGED raisedBy
          ELSE /\ pc' = "raised"
               /\ raisedBy' = "feedforward"
               /\ UNCHANGED <<AL, caches>>
    /\ UNCHANGED <<config, parameters, epoch, mini_batches, batch_num, cost, grads,
                   ul, costs, updates>>

y_mini == T(LabelShape(ylayout, ydim, CurSize))

\* Line 153: get_cost.
Cost ==
    /\ pc = "cost"
    /\ LET r == get_cost(AL, y_mini)
       IN IF r.ok
          THEN /\ \E v \in CostValues : cost' = [value |-> v, m |-> r.m]
               /\ pc' = "backward"
               /\ UNCHANGED raisedBy
          ELSE /\ pc' = "raised"
               /\ raisedBy' = "get_cost"
               /\ UNCHANGED cost
    /\ UNCHANGED <<config, parameters, epoch, mini_batches, batch_num, AL, caches,
                   grads, ul, costs, updates>>

\* Variant: the output layer is updated as soon as its gradients are known,
\* before the hidden layers' gradients are computed.
BackwardEager ==
    /\ pc = "backward"
    /\ LET r == backpropagate(AL, y_mini, caches)
       IN IF r.ok
          THEN /\ grads' = r.grads
               /\ ul' = 1
               /\ pc' = "update"
               /\ UNCHANGED <<raisedBy, parameters>>
          ELSE /\ pc' = "raised"
               /\ raisedBy' = "backpropagate"
               /\ parameters' =
                     IF Bcast(Reshape(y_mini, AL), AL) = RAISE THEN parameters
                     ELSE [parameters EXCEPT ![L].Wver = @ + 1, ![L].bver = @ + 1]
               /\ UNCHANGED <<grads, ul>>
    /\ UNCHANGED <<config, epoch, mini_batches, batch_num, AL, caches,
                   cost, costs, updates>>

\* Line 155: backpropagate.
Backward ==
    /\ pc = "backward"
    /\ LET r == backpropagate(AL, y_mini, caches)
       IN IF r.ok
          THEN /\ grads' = r.grads
               /\ ul' = 1
               /\ pc' = "update"
               /\ UNCHANGED raisedBy
          ELSE /\ pc' = "raised"
               /\ raisedBy' = "backpropagate"
               /\ UNCHANGED <<grads, ul>>
    /\ UNCHANGED <<config, parameters, epoch, mini_batches, batch_num, AL, caches,
                   cost, costs, updates>>

\* Variant: the loop stops one layer early.
UpdateLayersShort(n) == 1..(n - 1)

\* The layers the loop of update_params visits: l + 1 for l in range(L).
UpdateLayers(n) == 1..n

\* Lines 184-190: one iteration of the loop of update_params, W then b.
UpdateLayer ==
    /\ pc = "update"
    /\ ul \in UpdateLayers(L)
    /\ LET Wn == Bcast(parameters[ul].W, grads[ul].dW)
           bn == Bcast(parameters[ul].b, grads[ul].db)
       IN IF Wn = RAISE
          THEN /\ pc' = "raised"
               /\ raisedBy' = "update_params"
               /\ UNCHANGED <<parameters, ul>>
          ELSE IF bn = RAISE
          THEN /\ pc' = "raised"
               /\ raisedBy' = "update_params"
               /\ parameters' = [parameters EXCEPT ![ul].W = Wn,
                                                   ![ul].Wver = @ + 1]
               /\ UNCHANGED ul
          ELSE /\ parameters' = [parameters EXCEPT ![ul].W = Wn,
                                                   ![ul].Wver = @ + 1,
                                                   ![ul].b = bn,
                                                   ![ul].bver = @ + 1]
               /\ ul' = ul + 1
               /\ UNCHANGED <<pc, raisedBy>>
    /\ UNCHANGED <<config, epoch, mini_batches, batch_num, AL, caches, cost, grads,
                   costs, updates>>

\* update_params returns; lines 160-165 record the cost; the loop over the
\* mini-batches goes on or ends, and with it the epoch (lines 166-167).
Record ==
    /\ pc = "update"
    /\ ul \notin UpdateLayers(L)
    /\ updates' = updates + 1
    /\ costs' = IF ShouldRecord(batch_num)
                THEN Append(costs, [epoch |-> epoch, batch_num |-> batch_num])
                ELSE costs
    /\ IF batch_num + 1 < Len(mini_batches)
       THEN /\ batch_num' = batch_num + 1
            /\ pc' = "forward"
            /\ UNCHANGED epoch
       ELSE /\ UNCHANGED batch_num
            /\ IF test_data.present
               THEN pc' = "predict" /\ UNCHANGED epoch
               ELSE pc' = "epoch" /\ epoch' = epoch + 1
    /\ UNCHANGED <<config, parameters, mini_batches, locals, raisedBy>>

\* DeepNet.predict: what it can do: return ("ok") or raise. The comparison of
\* two arrays whose shapes do not broadcast returns False or raises, depending
\* on the numpy version.
predictOutcomes(params, data) ==
    LET probs == feedforward(params, T(<<TestM, data.xdim>>), <<"test">>)
        y == T(LabelShape(data.layout, data.ydim, TestM))
        lhs == ArgmaxAxis1(T(probs.AL))
        rhs == ArgmaxAxis1(y)
    IN IF ~probs.ok \/ rhs = RAISE THEN {"raise"}
       ELSE IF Bcast(lhs, rhs) = RAISE THEN {"raise", "ok"}
       ELSE {"ok"}

\* Variant: predict writes the weights back.
PredictTraining ==
    /\ pc = "predict"
    /\ \E out \in predictOutcomes(parameters, test_data) :
          IF out = "ok"
          THEN pc' = "epoch" /\ epoch' = epoch + 1 /\ UNCHANGED raisedBy
          ELSE pc' = "raised" /\ raisedBy' = "predict" /\ UNCHANGED epoch
    /\ parameters' = [l \in 1..L |-> [parameters[l] EXCEPT !.Wver = @ + 1]]
    /\ UNCHANGED <<config, mini_batches, batch_num, locals, costs, updates>>

\* Lines 166-167: predict on the held-out set at the end of the epoch.
Predict ==
    /\ pc = "predict"
    /\ \E out \in predictOutcomes(parameters, test_data) :
          IF out = "ok"
          THEN pc' = "epoch" /\ epoch' = epoch + 1 /\ UNCHANGED raisedBy
          ELSE pc' = "raised" /\ raisedBy' = "predict" /\ UNCHANGED epoch
    /\ UNCHANGED <<config, parameters, mini_batches, batch_num, locals, costs,
                   updates>>

\* The loop over the epochs is exhausted: SGD returns.
Finish ==
    /\ pc = "epoch"
    /\ epoch \notin EpochRange(num_epochs)
    /\ pc' = "done"
    /\ UNCHANGED <<config, parameters, epoch, mini_batches, batch_num, locals,
                   costs, updates, raisedBy>>

Next == StartEpoch \/ Forward \/ Cost \/ Backward \/ UpdateLayer \/ Record
        \/ Predict \/ Finish

Spec == Init /\ [][Next]_vars

\* Deep runs: every architecture, on training sets of one mini-batch.
InitDeep == InitWith(Architectures(1, MaxLayers), 1..MaxBatch, Layouts, {"column"},
                     1..MaxEpochs, {MaxBatch})

SpecDeep == InitDeep /\ [][Next]_vars

\* Long runs: enough mini-batches per epoch for several recorded costs.
InitLong == InitWith(Architectures(1, 1), {LongM - 1, LongM}, {"column"}, {"column"},
                     1..MaxEpochs, 1..MaxBatch)

SpecLong == InitLong /\ [][Next]_vars

\* ------------------------------------------------------- the constructor alone
CtorArchitectures == UNION {[1..n -> (-1)..MaxUnits] : n \in 0..MaxCtorLen}

InitCtor ==
    /\ architecture \in CtorArchitectures
    /\ parameters = <<>>
    /\ X = <<1, 1>>
    /\ ylayout = "scalar"
    /\ ydim = 1
    /\ num_epochs = 1
    /\ mini_batch_size = 1
    /\ test_data = NoTestData
    /\ pc = "new"
    /\ epoch = 0
    /\ mini_batches = <<>>
    /\ batch_num = 0
    /\ AL = RAISE
    /\ caches = <<>>
    /\ cost = [value |-> "low", m |-> 0]
    /\ grads = <<>>
    /\ ul = 0
    /\ costs = <<>>
    /\ updates = 0
    /\ raisedBy = "none"

\* DeepNet.__init__ on any list of integers.
Construct ==
    /\ pc = "new"
    /\ IF CtorRaises(architecture)
       THEN /\ pc' = "raised"
            /\ raisedBy' = "__init__"
            /\ UNCHANGED parameters
       ELSE /\ pc' = "constructed"
            /\ parameters' = InitParams(architecture)
            /\ UNCHANGED raisedBy
    /\ UNCHANGED <<config, epoch, mini_batches, batch_num, locals, costs, updates>>

NextCtor == Construct

SpecCtor == InitCtor /\ [][NextCtor]_vars

\* ------------------------------------------------------------------ properties
CeilDiv(x, y) == (x + y - 1) \div y

\* The number of mini-batches of an epoch: ceil(m / mini_batch_size).
NumBatches == CeilDiv(m, mini_batch_size)

InStep == pc \in {"forward", "cost", "backward", "update"}
StepCalls == {"feedforward", "get_cost", "backpropagate", "update_params"}

\* C1: backpropagate chains the gradients layer by layer: the gradients stored
\* for layer l < L are computed from the dA_prev stored by layer l+1 (those of
\* layer L from the loss gradient), and there is one triple per layer 1..L.
C1_GradientsChained ==
    pc = "update" =>
        /\ Len(grads) = L
        /\ \A k \in 1..L : grads[k].src = k + 1

\* C2: in every state, after construction and after every update, layer l's
\* weights have shape (units[l], units[l-1]) and its bias (units[l], 1).
C2_ShapesMatchArchitecture ==
    /\ L = Len(architecture) - 1
    /\ \A l \in 1..L :
          /\ parameters[l].W = <<architecture[l + 1], architecture[l]>>
          /\ parameters[l].b = <<architecture[l + 1], 1>>

C2_Witness ==
    /\ updates >= 2
    /\ L >= 3
    /\ \E l \in 1..L : architecture[l + 1] # architecture[l]
    /\ C2_ShapesMatchArchitecture

\* C3: the divisor m of the cost of a mini-batch is the number of examples of
\* that mini-batch.
C3_CostDivisorIsBatchSize ==
    pc \in {"backward", "update"} => cost.m = CurSize

\* Running one step on `size` examples with the parameters params raises.
StepRaises(params, size) ==
    LET Y == T(LabelShape(ylayout, ydim, size))
        f == feedforward(params, T(<<size, X[2]>>), <<>>)
        g == backpropagate(f.AL, Y, f.caches)
    IN \/ ~f.ok
       \/ ~get_cost(f.AL, Y).ok
       \/ ~g.ok
       \/ \E l \in 1..Len(params) :
             \/ Bcast(params[l].W, g.grads[l].dW) = RAISE
             \/ Bcast(params[l].b, g.grads[l].db) = RAISE

\* C4: the mini-batches of an epoch are contiguous and cover the m examples
\* once each; all have mini_batch_size examples except possibly the last, which
\* has m mod mini_batch_size when that is not 0; a mini_batch_size above m
\* gives the one batch of all examples; and a step never raises on a batch for
\* being smaller than mini_batch_size.
C4_MiniBatchesPartition ==
    /\ (pc # "epoch" \/ epoch > 0) => mini_batches # <<>>
    /\ mini_batches # <<>> =>
          LET n == Len(mini_batches)
              size(i) == mini_batches[i].hi - mini_batches[i].lo
          IN /\ mini_batches[1].lo = 0
             /\ mini_batches[n].hi = m
             /\ \A i \in 1..(n - 1) :
                   /\ mini_batches[i + 1].lo = mini_batches[i].hi
                   /\ size(i) = mini_batch_size
             /\ size(n) = IF m % mini_batch_size = 0 THEN mini_batch_size
                          ELSE m % mini_batch_size
             /\ n = CeilDiv(m, mini_batch_size)
             /\ mini_batch_size > m => n = 1 /\ mini_batches[1] = [lo |-> 0, hi |-> m]
    /\ (pc = "raised" /\ raisedBy \in StepCalls /\ CurSize < mini_batch_size)
          => StepRaises(parameters, mini_batch_size)

C4_Witness ==
    /\ pc = "done"
    /\ m > mini_batch_size
    /\ m % mini_batch_size # 0
    /\ updates = num_epochs * Len(mini_batches)

\* The number of transitions SGD has made, as a function of its position.
StepLen == L + 4
EpochLen == NumBatches * StepLen + 2
TotalLen == num_epochs * EpochLen + 1
Progress ==
    CASE pc = "epoch" -> epoch * EpochLen
      [] pc = "forward" -> epoch * EpochLen + 1 + batch_num * StepLen
      [] pc = "cost" -> epoch * EpochLen + 2 + batch_num * StepLen
      [] pc = "backward" -> epoch * EpochLen + 3 + batch_num * StepLen
      [] pc = "update" -> epoch * EpochLen + 3 + ul + batch_num * StepLen
      [] pc = "predict" -> epoch * EpochLen + 1 + NumBatches * StepLen
      [] OTHER -> TotalLen

\* C5: SGD returns after exactly num_epochs epochs and exactly
\* num_epochs * ceil(m / mini_batch_size) updates, whatever the costs were; it
\* never makes more updates, and every transition brings it closer to the end
\* (so it terminates).
C5_StopsAfterNumEpochs ==
    /\ [](pc = "done" =>
            /\ epoch = num_epochs
            /\ updates = num_epochs * CeilDiv(m, mini_batch_size))
    /\ [](updates <= num_epochs * CeilDiv(m, mini_batch_size))
    /\ [][Progress' > Progress /\ Progress' <= TotalLen]_vars

C5_Witness ==
    /\ pc = "done"
    /\ num_epochs >= 2
    /\ NumBatches >= 2
    /\ cost.value = "low"
    /\ updates = num_epochs * NumBatches

\* C6: the phases of a step run in the order forward, cost, backward, update;
\* the backward pass uses the caches of the forward pass of the same step; and
\* a forward pass reads parameters that the updates of all earlier steps have
\* reached in every layer.
C6_StrictStepOrder ==
    /\ [][/\ pc = "forward" => pc' \in {"cost", "raised"}
          /\ pc = "cost" => pc' \in {"backward", "raised"}
          /\ pc = "backward" => pc' \in {"update", "raised"}
          /\ pc' = "forward" => pc \in {"epoch", "update"}
          /\ pc' = "cost" => pc = "forward"
          /\ pc' = "backward" => pc = "cost"
          /\ pc' = "update" => pc \in {"backward", "update"}]_vars
    /\ [](pc = "forward" =>
            \A l \in 1..L : /\ parameters[l].Wver = updates
                            /\ parameters[l].bver = updates)
    /\ [](pc \in {"cost", "backward", "update"} =>
            /\ Len(caches) = L
            /\ \A l \in 1..L : /\ caches[l].batch = <<epoch, batch_num>>
                               /\ caches[l].Wver = updates
                               /\ caches[l].bver = updates)
    /\ [](pc = "update" =>
            \A l \in 1..L :
               /\ grads[l].batch = <<epoch, batch_num>>
               /\ grads[l].Wver = updates
               /\ parameters[l].Wver = updates + (IF l < ul THEN 1 ELSE 0)
               /\ parameters[l].bver = updates + (IF l < ul THEN 1 ELSE 0))

C6_Witness ==
    /\ pc = "update"
    /\ ul = L + 1
    /\ updates >= 1
    /\ L >= 2

\* C7: no network exists whose architecture has fewer than 2 entries or a
\* dimension <= 0: constructing one fails.
C7_InvalidArchitectureRejected ==
    pc = "constructed" => ValidArchitecture(architecture)

\* The parameters after a whole training: every layer updated once per step.
TrainedParams ==
    [l \in 1..(Len(architecture) - 1) |->
        [W |-> <<architecture[l + 1], architecture[l]>>,
         b |-> <<architecture[l + 1], 1>>,
         Wver |-> num_epochs * NumBatches,
         bver |-> num_epochs * NumBatches]]

\* C8: predict leaves every W and b as it found them, and the parameters SGD
\* returns with are the same with and without a held-out set.
C8_PredictReadOnly ==
    /\ [][pc = "predict" => parameters' = parameters]_vars
    /\ [](pc = "done" => parameters = TrainedParams)

C8_Witness ==
    /\ pc = "done"
    /\ test_data.present
    /\ num_epochs >= 2
    /\ parameters = TrainedParams

\* The number of costs recorded in an epoch, and the number of steps of the
\* current epoch that have completed.
RecPerEpoch == CeilDiv(NumBatches, ReportEvery)
StepsDoneInEpoch ==
    IF InStep \/ (pc = "raised" /\ raisedBy \in StepCalls) THEN batch_num
    ELSE IF pc = "predict" \/ (pc = "raised" /\ raisedBy = "predict") THEN NumBatches
    ELSE 0

\* C9: the recorded costs are, in the order of the steps, those of the steps
\* whose zero-based index in their epoch is a multiple of 100; SGD returns with
\* num_epochs * ceil(B / 100) of them.
C9_CostEveryHundredth ==
    /\ Len(costs) = epoch * RecPerEpoch + CeilDiv(StepsDoneInEpoch, ReportEvery)
    /\ \A i \in 1..Len(costs) :
          costs[i] = [epoch |-> (i - 1) \div RecPerEpoch,
                      batch_num |-> ((i - 1) % RecPerEpoch) * ReportEvery]
    /\ pc = "done" => Len(costs) = num_epochs * RecPerEpoch

C9_Witness ==
    /\ pc = "done"
    /\ num_epochs >= 2
    /\ RecPerEpoch >= 3
    /\ Len(costs) = num_epochs * RecPerEpoch

\* C10: when a step raises, no layer has been updated by it: every layer is as
\* the previous step left it, and the program makes no further transition.
C10_FailedStepLeavesParameters ==
    /\ [](pc = "raised" /\ raisedBy \in StepCalls =>
            \A l \in 1..L :
               /\ parameters[l].Wver = updates
               /\ parameters[l].bver = updates
               /\ parameters[l].W = <<architecture[l + 1], architecture[l]>>
               /\ parameters[l].b = <<architecture[l + 1], 1>>)
    /\ [][pc = "raised" => vars' = vars]_vars

C10_Witness ==
    /\ pc = "raised"
    /\ raisedBy = "backpropagate"
    /\ L >= 3
    /\ Bcast(Reshape(y_mini, AL), AL) # RAISE
    /\ \A l \in 1..L : parameters[l].Wver = 0

====
